---- MODULE Spec2Model ----
(***************************************************************************)
(* Dissertation registration backend: the request workflow (createRequest, *)
(* approveRequest, rejectRequest, cancelRequest), the registration-session *)
(* bookkeeping (createSession, updateSession), the document review         *)
(* (uploadDocument, acceptDocument, rejectDocument) and the professor's    *)
(* profile update, over the four tables users, registration_sessions,      *)
(* coordination_requests and documents, and the e-mails handed to the      *)
(* notifier (outbox).                                                      *)
(*                                                                         *)
(* Spec       runs every handler as one step (no two handlers overlap).    *)
(* DocSpec    adds the document review, DelSpec the deletion of sessions.  *)
(* SessSpec   creates, moves, resizes and deletes sessions alone.          *)
(* ConcSpec   runs approveRequest one database call at a time, so that     *)
(*            other handlers commit between its reads and its transaction. *)
(* SubmitSpec does the same for createRequest.                             *)
(* MailSpec   splits each notifying handler into its writes and its e-mail.*)
(***************************************************************************)
EXTENDS Integers, FiniteSets, Sequences, TLC

VARIABLES users, sessions, requests, documents, now, procs, outbox

vars == <<users, sessions, requests, documents, now, procs, outbox>>

(***************************************************************************)
(* Bounds of the model.                                                    *)
(***************************************************************************)
MaxSessions == 2
MaxRequests == 2
MaxDocuments == 2
MaxTime == 3
MaxSlotsInput == 2
MaxStudentsInput == 2
MaxProcs == 2
MaxDate == 4

Students == {"s1", "s2"}
Professors == {"p1", "p2"}
UserIds == Students \cup Professors
NULL == "null"

DEFAULT_MAX_STUDENTS == 5
MIN_MAX_STUDENTS == 1
MAX_MAX_STUDENTS == 50
MIN_MAX_SLOTS == 1

\* Dates and the clock are instants 1..MaxTime.  A request body field that is
\* left out (or is falsy: `if (maxSlots)`, `if (startDate)`) is written 0.
Times == 1..MaxTime
Dates == 1..MaxDate
SlotInputs == 1..MaxSlotsInput
CapacityInputs == 1..MaxStudentsInput
Given(x) == x # 0

SYSTEM_REASON == "Student was approved by another professor"
Reasons == {"", "reason"}

(***************************************************************************)
(* Rows.                                                                   *)
(***************************************************************************)
StudentRow ==
  [role |-> "student", approvedProfessorId |-> NULL,
   maxStudents |-> DEFAULT_MAX_STUDENTS, currentStudentCount |-> 0]

ProfessorRow(m) ==
  [role |-> "professor", approvedProfessorId |-> NULL,
   maxStudents |-> m, currentStudentCount |-> 0]

DestroyedRequest ==
  [exists |-> FALSE, studentId |-> NULL, professorId |-> NULL, sessionId |-> 0,
   status |-> NULL, rejectionReason |-> NULL]

DestroyedSession ==
  [exists |-> FALSE, professorId |-> NULL, startDate |-> 0, endDate |-> 0,
   status |-> NULL, maxSlots |-> 0, availableSlots |-> 0]

SessionIds == 1..Len(sessions)
RequestIds == 1..Len(requests)
DocumentIds == 1..Len(documents)

LiveSessions == {s \in SessionIds : sessions[s].exists}

LiveRequests == {r \in RequestIds : requests[r].exists}

Committed == {"approved", "document_pending", "completed"}

(***************************************************************************)
(* A handler's outcome: the response and the tables it leaves behind.      *)
(***************************************************************************)
Out(code, u, s, r, d) ==
  [code |-> code, users |-> u, sessions |-> s, requests |-> r, documents |-> d]

Fail(code) == Out(code, users, sessions, requests, documents)

\* A call takes a step when it writes something; a call that returns early, or
\* that saves what is already stored, leaves every table as it is.
Apply(out) ==
  /\ <<out.users, out.sessions, out.requests, out.documents>>
       # <<users, sessions, requests, documents>>
  /\ users' = out.users
  /\ sessions' = out.sessions
  /\ requests' = out.requests
  /\ documents' = out.documents

(***************************************************************************)
(* RegistrationSession model.                                              *)
(***************************************************************************)
StatusAt(startDate, endDate, t) ==
  IF t < startDate THEN "upcoming"
  ELSE IF t >= startDate /\ t <= endDate THEN "active"
  ELSE "closed"

\* Mutant: the stored status is trusted and never recomputed.
updateStatusKeepsStored(ss, sid, t) == ss

updateStatus(ss, sid, t) ==
  LET newStatus == StatusAt(ss[sid].startDate, ss[sid].endDate, t)
  IN IF ss[sid].status # newStatus
     THEN [ss EXCEPT ![sid].status = newStatus]
     ELSE ss

\* RegistrationSession.updateAllStatuses: two bulk updates, upcoming to
\* active, then upcoming or active to closed.
updateAllStatuses(ss, t) ==
  LET activated ==
        [s \in 1..Len(ss) |->
           IF /\ ss[s].exists /\ ss[s].status = "upcoming"
              /\ ss[s].startDate <= t /\ ss[s].endDate >= t
           THEN [ss[s] EXCEPT !.status = "active"] ELSE ss[s]]
  IN [s \in 1..Len(ss) |->
        IF /\ activated[s].exists /\ activated[s].status \in {"upcoming", "active"}
           /\ activated[s].endDate < t
        THEN [activated[s] EXCEPT !.status = "closed"] ELSE activated[s]]

Between(x, lo, hi) == x >= lo /\ x <= hi

\* Mutant: a stored session that only touches the window at a boundary date
\* is not found.
hasOverlapOpen(ss, self, professorId, startDate, endDate) ==
  \E o \in 1..Len(ss) :
     /\ ss[o].exists
     /\ ss[o].professorId = professorId
     /\ o # self
     /\ ss[o].startDate < endDate /\ startDate < ss[o].endDate

\* Mutant: only a stored session that starts inside the window is found.
hasOverlapStartOnly(ss, self, professorId, startDate, endDate) ==
  \E o \in 1..Len(ss) :
     /\ ss[o].exists
     /\ ss[o].professorId = professorId
     /\ o # self
     /\ Between(ss[o].startDate, startDate, endDate)

hasOverlap(ss, self, professorId, startDate, endDate) ==
  \E o \in 1..Len(ss) :
     /\ ss[o].exists
     /\ ss[o].professorId = professorId
     /\ o # self
     /\ \/ Between(ss[o].startDate, startDate, endDate)
        \/ Between(ss[o].endDate, startDate, endDate)
        \/ (ss[o].startDate <= startDate /\ ss[o].endDate >= endDate)

endDateAfterStart(startDate, endDate) == ~(endDate <= startDate)

SessionRow(professorId, startDate, endDate, maxSlots, status) ==
  [exists |-> TRUE, professorId |-> professorId, startDate |-> startDate,
   endDate |-> endDate, status |-> status, maxSlots |-> maxSlots,
   availableSlots |-> maxSlots]

(***************************************************************************)
(* Session controller.                                                     *)
(***************************************************************************)
\* POST /api/sessions, by professor p.
createSession(p, startDate, endDate, maxSlots) ==
  IF hasOverlap(sessions, 0, p, startDate, endDate) THEN Fail("overlap")
  ELSE IF ~endDateAfterStart(startDate, endDate) THEN Fail("error")
  ELSE LET status == IF startDate <= now /\ endDate >= now THEN "active"
                     ELSE IF startDate > now THEN "upcoming"
                     ELSE "closed"
       IN Out("ok", users,
              Append(sessions, SessionRow(p, startDate, endDate, maxSlots, status)),
              requests, documents)

\* Mutant: the new availableSlots is not kept from going below 0.
PatchedSessionUnclamped(row, startDate, endDate, maxSlots) ==
  LET a == IF Given(startDate) THEN [row EXCEPT !.startDate = startDate] ELSE row
      b == IF Given(endDate) THEN [a EXCEPT !.endDate = endDate] ELSE a
  IN IF Given(maxSlots)
     THEN [b EXCEPT !.maxSlots = maxSlots,
                    !.availableSlots = b.availableSlots + (maxSlots - b.maxSlots)]
     ELSE b

\* The instance updateSession edits before it saves it.
PatchedSession(row, startDate, endDate, maxSlots) ==
  LET a == IF Given(startDate) THEN [row EXCEPT !.startDate = startDate] ELSE row
      b == IF Given(endDate) THEN [a EXCEPT !.endDate = endDate] ELSE a
  IN IF Given(maxSlots)
     THEN LET slotDifference == maxSlots - b.maxSlots
              avail == b.availableSlots + slotDifference
          IN [b EXCEPT !.maxSlots = maxSlots,
                       !.availableSlots = IF avail > 0 THEN avail ELSE 0]
     ELSE b

\* PUT /api/sessions/:id, by professor p.
updateSession(p, sid, startDate, endDate, maxSlots) ==
  IF sid \notin LiveSessions THEN Fail("not_found")
  ELSE IF sessions[sid].professorId # p THEN Fail("forbidden")
  ELSE LET row == PatchedSession(sessions[sid], startDate, endDate, maxSlots)
       IN IF (Given(startDate) \/ Given(endDate))
             /\ hasOverlap(sessions, sid, p, row.startDate, row.endDate)
          THEN Fail("overlap")
          ELSE IF ~endDateAfterStart(row.startDate, row.endDate)
                  \/ row.maxSlots < MIN_MAX_SLOTS
          THEN Fail("error")
          ELSE Out("ok", users,
                   updateStatus([sessions EXCEPT ![sid] = row], sid, now),
                   requests, documents)

\* The rows that go with a session when it is destroyed: the foreign key
\* session_id of coordination_requests is NOT NULL and belongs to a hasMany
\* association, which the schema turns into ON DELETE CASCADE.
CascadeRequests(rs, sid) ==
  [r \in 1..Len(rs) |->
     IF rs[r].exists /\ rs[r].sessionId = sid THEN DestroyedRequest ELSE rs[r]]

\* Mutant: only requests in status approved keep a session from deletion.
hasApprovedRequestsOnly(sid) ==
  \E r \in LiveRequests :
     requests[r].sessionId = sid /\ requests[r].status = "approved"

\* hasApprovedRequests of deleteSession.
hasApprovedRequests(sid) ==
  \E r \in LiveRequests :
     requests[r].sessionId = sid /\ requests[r].status \in Committed

\* DELETE /api/sessions/:id, by professor p.
deleteSession(p, sid) ==
  IF sid \notin LiveSessions THEN Fail("not_found")
  ELSE IF sessions[sid].professorId # p THEN Fail("forbidden")
  ELSE IF hasApprovedRequests(sid) THEN Fail("has_approved")
  ELSE Out("ok", users, [sessions EXCEPT ![sid] = DestroyedSession],
           CascadeRequests(requests, sid), documents)

\* GET /api/sessions, /api/sessions/active and /api/sessions/professor/my:
\* updateAllStatuses, then the stored rows.  data is the status returned for
\* each session.
getAllSessions ==
  LET ss == updateAllStatuses(sessions, now)
  IN [code |-> "ok", users |-> users, sessions |-> ss, requests |-> requests,
      documents |-> documents,
      data |-> [s \in {x \in 1..Len(ss) : ss[x].exists} |-> ss[s].status]]

\* GET /api/sessions/:id: findByPk, then updateStatus on the instance returned.
getSessionById(sid) ==
  IF sid \notin LiveSessions
  THEN [code |-> "not_found", users |-> users, sessions |-> sessions,
        requests |-> requests, documents |-> documents, data |-> NULL]
  ELSE LET ss == updateStatus(sessions, sid, now)
       IN [code |-> "ok", users |-> users, sessions |-> ss, requests |-> requests,
           documents |-> documents, data |-> ss[sid].status]

(***************************************************************************)
(* CoordinationRequest model.                                              *)
(***************************************************************************)
RequestRow(studentId, professorId, sessionId) ==
  [exists |-> TRUE, studentId |-> studentId, professorId |-> professorId,
   sessionId |-> sessionId, status |-> "pending", rejectionReason |-> NULL]

\* canBeApproved reads the student row, then the professor row.
StudentAlreadyApproved(student) == student.approvedProfessorId # NULL

ProfessorAtCapacity(professor) ==
  professor.currentStudentCount >= professor.maxStudents

canBeApproved(student, professor) ==
  IF StudentAlreadyApproved(student) THEN "already_approved"
  ELSE IF ProfessorAtCapacity(professor) THEN "capacity"
  ELSE "ok"

\* The writes of approve's transaction, per table.  this is the instance the
\* controller loaded: [id, studentId, professorId, sessionId].
\* Mutant: the approval leaves the student's other pending requests alone.
ApproveRequestsNoCascade(rs, this) ==
  [r \in 1..Len(rs) |->
     IF r = this.id /\ rs[r].exists THEN [rs[r] EXCEPT !.status = "approved"] ELSE rs[r]]

ApproveRequests(rs, this) ==
  [r \in 1..Len(rs) |->
     IF r = this.id
     THEN IF rs[r].exists THEN [rs[r] EXCEPT !.status = "approved"] ELSE rs[r]
     ELSE IF rs[r].exists /\ rs[r].studentId = this.studentId
             /\ rs[r].status = "pending"
     THEN [rs[r] EXCEPT !.status = "rejected", !.rejectionReason = SYSTEM_REASON]
     ELSE rs[r]]

ApproveUsers(us, this) ==
  [us EXCEPT ![this.studentId].approvedProfessorId = this.professorId,
             ![this.professorId].currentStudentCount = @ + 1]

ApproveSessions(ss, this) ==
  [s \in 1..Len(ss) |->
     IF s = this.sessionId /\ ss[s].exists
     THEN [ss[s] EXCEPT !.availableSlots = @ - 1]
     ELSE ss[s]]

\* The transaction of approve, committed.
ApproveTxn(this) ==
  Out("ok", ApproveUsers(users, this), ApproveSessions(sessions, this),
      ApproveRequests(requests, this), documents)

Instance(id) ==
  [id |-> id, studentId |-> requests[id].studentId,
   professorId |-> requests[id].professorId, sessionId |-> requests[id].sessionId]

\* CoordinationRequest.prototype.approve on a loaded row, run without a break.
approve(id) ==
  LET this == Instance(id)
      can == canBeApproved(users[this.studentId], users[this.professorId])
  IN IF can # "ok" THEN Fail(can) ELSE ApproveTxn(this)

\* CoordinationRequest.prototype.reject
reject(rs, id, reason) ==
  [rs EXCEPT ![id].status = "rejected", ![id].rejectionReason = reason]

(***************************************************************************)
(* Request controller.                                                     *)
(***************************************************************************)
ExistingRequest(s, sid) ==
  \E r \in LiveRequests : requests[r].studentId = s /\ requests[r].sessionId = sid

\* The index unique_student_session_request, as the insert meets it.
UniqueViolation(rs, studentId, sessionId) ==
  \E r \in 1..Len(rs) :
     rs[r].exists /\ rs[r].studentId = studentId /\ rs[r].sessionId = sessionId

\* Mutant: coordination_requests has no unique index.
createWithoutIndex(this) ==
  Out("ok", users, sessions,
      Append(requests, RequestRow(this.studentId, this.professorId, this.sessionId)),
      documents)

\* CoordinationRequest.create of createRequest: the insert throws when the
\* index finds the pair stored.
create(this) ==
  IF UniqueViolation(requests, this.studentId, this.sessionId)
  THEN Fail("error")
  ELSE Out("ok", users, sessions,
           Append(requests, RequestRow(this.studentId, this.professorId, this.sessionId)),
           documents)

\* Mutant: submit reserves a slot of the session.
createRequestReservingSlot(s, sid) ==
  IF users[s].approvedProfessorId # NULL THEN Fail("already_approved")
  ELSE IF sid \notin LiveSessions THEN Fail("not_found")
  ELSE LET ss == updateStatus(sessions, sid, now)
           session == ss[sid]
       IN IF session.status # "active"
          THEN Out("not_active", users, ss, requests, documents)
          ELSE IF session.availableSlots <= 0
          THEN Out("no_slots", users, ss, requests, documents)
          ELSE IF ExistingRequest(s, sid)
          THEN Out("duplicate", users, ss, requests, documents)
          ELSE Out("ok", users, [ss EXCEPT ![sid].availableSlots = @ - 1],
                   Append(requests, RequestRow(s, session.professorId, sid)),
                   documents)

\* POST /api/requests, by student s.
createRequest(s, sid) ==
  IF users[s].approvedProfessorId # NULL THEN Fail("already_approved")
  ELSE IF sid \notin LiveSessions THEN Fail("not_found")
  ELSE LET ss == updateStatus(sessions, sid, now)
           session == ss[sid]
       IN IF session.status # "active"
          THEN Out("not_active", users, ss, requests, documents)
          ELSE IF session.availableSlots <= 0
          THEN Out("no_slots", users, ss, requests, documents)
          ELSE IF ExistingRequest(s, sid)
          THEN Out("duplicate", users, ss, requests, documents)
          ELSE Out("ok", users, ss,
                   Append(requests, RequestRow(s, session.professorId, sid)),
                   documents)

\* GET /api/requests, by user u: the user's requests, each with the stored
\* status of its session embedded (include session: id, title, status).
getMyRequests(u) ==
  [r \in {x \in LiveRequests :
            IF users[u].role = "student" THEN requests[x].studentId = u
            ELSE requests[x].professorId = u}
     |-> sessions[requests[r].sessionId].status]

\* PUT /api/requests/:id/approve, by professor p.
approveRequest(p, id) ==
  IF id \notin LiveRequests THEN Fail("not_found")
  ELSE IF requests[id].professorId # p THEN Fail("forbidden")
  ELSE IF requests[id].status # "pending" THEN Fail("invalid_state")
  ELSE approve(id)

\* PUT /api/requests/:id/reject, by professor p.
rejectRequest(p, id, reason) ==
  IF reason = "" THEN Fail("validation")
  ELSE IF id \notin LiveRequests THEN Fail("not_found")
  ELSE IF requests[id].professorId # p THEN Fail("forbidden")
  ELSE IF requests[id].status # "pending" THEN Fail("invalid_state")
  ELSE Out("ok", users, sessions, reject(requests, id, reason), documents)

\* Mutant: a student cancels a request of theirs whatever its status.
cancelRequestAnyStatus(s, id) ==
  IF id \notin LiveRequests THEN Fail("not_found")
  ELSE IF requests[id].studentId # s THEN Fail("forbidden")
  ELSE Out("ok", users, sessions,
           [requests EXCEPT ![id] = DestroyedRequest], documents)

\* DELETE /api/requests/:id, by student s.
cancelRequest(s, id) ==
  IF id \notin LiveRequests THEN Fail("not_found")
  ELSE IF requests[id].studentId # s THEN Fail("forbidden")
  ELSE IF requests[id].status # "pending" THEN Fail("invalid_state")
  ELSE Out("ok", users, sessions,
           [requests EXCEPT ![id] = DestroyedRequest], documents)

(***************************************************************************)
(* Document model and controller.                                          *)
(***************************************************************************)
DocumentRow(requestId, uploadedBy) ==
  [requestId |-> requestId, uploadedBy |-> uploadedBy,
   uploaderRole |-> users[uploadedBy].role,
   status |-> "pending_review", rejectionReason |-> NULL]

\* CoordinationRequest.update({status}, {where: {id}}) of Document.accept/reject.
SetRequestStatus(rs, id, status) ==
  [r \in 1..Len(rs) |->
     IF r = id /\ rs[r].exists THEN [rs[r] EXCEPT !.status = status] ELSE rs[r]]

\* Mutant: accepting a document leaves its request as it is.
acceptDocumentAlone(did) ==
  Out("ok", users, sessions, requests,
      [documents EXCEPT ![did].status = "accepted"])

\* Document.prototype.accept
accept(did) ==
  Out("ok", users, sessions,
      SetRequestStatus(requests, documents[did].requestId, "completed"),
      [documents EXCEPT ![did].status = "accepted"])

\* Mutant: rejecting a document leaves its request as it is.
rejectDocKeepsRequest(did, reason) ==
  Out("ok", users, sessions, requests,
      [documents EXCEPT ![did].status = "rejected", ![did].rejectionReason = reason])

\* Document.prototype.reject
rejectDoc(did, reason) ==
  Out("ok", users, sessions,
      SetRequestStatus(requests, documents[did].requestId, "approved"),
      [documents EXCEPT ![did].status = "rejected", ![did].rejectionReason = reason])

\* Mutant: the student may upload whatever the status of the request.
uploadDocumentAnyStatus(u, id) ==
  IF id \notin LiveRequests THEN Fail("not_found")
  ELSE LET request == requests[id]
           isStudent == request.studentId = u
           isProfessor == request.professorId = u
       IN IF ~isStudent /\ ~isProfessor THEN Fail("forbidden")
          ELSE IF isProfessor /\ request.status \notin {"document_pending"}
          THEN Fail("invalid_state")
          ELSE Out("ok", users, sessions,
                   IF isStudent
                   THEN [requests EXCEPT ![id].status = "document_pending"]
                   ELSE requests,
                   Append(documents, DocumentRow(id, u)))

\* POST /api/documents/upload, by user u.
uploadDocument(u, id) ==
  IF id \notin LiveRequests THEN Fail("not_found")
  ELSE LET request == requests[id]
           isStudent == request.studentId = u
           isProfessor == request.professorId = u
       IN IF ~isStudent /\ ~isProfessor THEN Fail("forbidden")
          ELSE IF isStudent /\ request.status # "approved" THEN Fail("invalid_state")
          ELSE IF isProfessor /\ request.status \notin {"document_pending"}
          THEN Fail("invalid_state")
          ELSE Out("ok", users, sessions,
                   IF isStudent
                   THEN [requests EXCEPT ![id].status = "document_pending"]
                   ELSE requests,
                   Append(documents, DocumentRow(id, u)))

\* PUT /api/documents/:id/accept, by professor p.
acceptDocument(p, did) ==
  IF did \notin DocumentIds THEN Fail("not_found")
  ELSE IF requests[documents[did].requestId].professorId # p THEN Fail("forbidden")
  ELSE IF documents[did].status # "pending_review" THEN Fail("invalid_state")
  ELSE accept(did)

\* PUT /api/documents/:id/reject, by professor p.
rejectDocument(p, did, reason) ==
  IF reason = "" THEN Fail("validation")
  ELSE IF did \notin DocumentIds THEN Fail("not_found")
  ELSE IF requests[documents[did].requestId].professorId # p THEN Fail("forbidden")
  ELSE IF documents[did].status # "pending_review" THEN Fail("invalid_state")
  ELSE rejectDoc(did, reason)

(***************************************************************************)
(* Auth controller.                                                        *)
(***************************************************************************)
\* PUT /api/auth/me, by user u; maxStudents 0 stands for a body without it.
updateProfile(u, maxStudents) ==
  IF users[u].role = "professor" /\ Given(maxStudents)
  THEN IF maxStudents < MIN_MAX_STUDENTS \/ maxStudents > MAX_MAX_STUDENTS
       THEN Fail("error")
       ELSE Out("ok", [users EXCEPT ![u].maxStudents = maxStudents],
                sessions, requests, documents)
  ELSE Fail("ok")

(***************************************************************************)
(* A handler in flight (ConcSpec): where it stands and what it has loaded. *)
(***************************************************************************)
Idle == [pc |-> "idle", this |-> [id |-> 0, studentId |-> NULL,
                                  professorId |-> NULL, sessionId |-> 0],
         code |-> NULL]

(***************************************************************************)
(* The handlers as steps: each runs from its first read to its response    *)
(* with no other handler in between.                                       *)
(***************************************************************************)
Init ==
  /\ users = [u \in UserIds |->
                IF u \in Students THEN StudentRow ELSE ProfessorRow(MaxStudentsInput)]
  /\ sessions = <<>>
  /\ requests = <<>>
  /\ documents = <<>>
  /\ now = 1
  /\ procs = [i \in 1..MaxProcs |-> Idle]
  /\ outbox = {}

Tick ==
  /\ now < MaxTime
  /\ now' = now + 1
  /\ UNCHANGED <<users, sessions, requests, documents, procs, outbox>>

CreateSession ==
  \E p \in Professors, startDate \in Times, endDate \in Times, maxSlots \in SlotInputs :
     /\ Len(sessions) < MaxSessions
     /\ Apply(createSession(p, startDate, endDate, maxSlots))
     /\ UNCHANGED <<now, procs, outbox>>

\* updateSession with a body that holds maxSlots alone.
UpdateSessionSlots ==
  \E p \in Professors, sid \in SessionIds, maxSlots \in SlotInputs :
     /\ Apply(updateSession(p, sid, 0, 0, maxSlots))
     /\ UNCHANGED <<now, procs, outbox>>

UpdateProfile ==
  \E u \in UserIds, maxStudents \in CapacityInputs :
     /\ Apply(updateProfile(u, maxStudents))
     /\ UNCHANGED <<now, procs, outbox>>

CreateRequest ==
  \E s \in Students, sid \in SessionIds :
     /\ Len(requests) < MaxRequests
     /\ Apply(createRequest(s, sid))
     /\ UNCHANGED <<now, procs, outbox>>

ApproveRequest ==
  \E p \in Professors, id \in RequestIds :
     /\ Apply(approveRequest(p, id))
     /\ UNCHANGED <<now, procs, outbox>>

RejectRequest ==
  \E p \in Professors, id \in RequestIds, reason \in Reasons :
     /\ Apply(rejectRequest(p, id, reason))
     /\ UNCHANGED <<now, procs, outbox>>

CancelRequest ==
  \E s \in Students, id \in RequestIds :
     /\ Apply(cancelRequest(s, id))
     /\ UNCHANGED <<now, procs, outbox>>

UploadDocument ==
  \E u \in UserIds, id \in RequestIds :
     /\ Len(documents) < MaxDocuments
     /\ Apply(uploadDocument(u, id))
     /\ UNCHANGED <<now, procs, outbox>>

AcceptDocument ==
  \E p \in Professors, did \in DocumentIds :
     /\ Apply(acceptDocument(p, did))
     /\ UNCHANGED <<now, procs, outbox>>

RejectDocument ==
  \E p \in Professors, did \in DocumentIds, reason \in Reasons :
     /\ Apply(rejectDocument(p, did, reason))
     /\ UNCHANGED <<now, procs, outbox>>

\* Sessions, capacities and the request workflow, as time passes.
Next ==
  \/ Tick
  \/ CreateSession
  \/ UpdateSessionSlots
  \/ UpdateProfile
  \/ CreateRequest
  \/ ApproveRequest
  \/ RejectRequest
  \/ CancelRequest

Spec == Init /\ [][Next]_vars

\* The request workflow with the document review on top of it.
DocNext ==
  \/ CreateSession
  \/ CreateRequest
  \/ ApproveRequest
  \/ RejectRequest
  \/ CancelRequest
  \/ UploadDocument
  \/ AcceptDocument
  \/ RejectDocument

DocSpec == Init /\ [][DocNext]_vars

(***************************************************************************)
(* approveRequest one database call at a time.  Both professors have       *)
(* registered and each has opened one session that is active; students     *)
(* submit, cancel and professors reject between the calls of an approval   *)
(* in flight.                                                              *)
(***************************************************************************)
ConcInit ==
  /\ users \in {[u \in UserIds |->
                   IF u \in Students THEN StudentRow ELSE ProfessorRow(m[u])] :
                m \in [Professors -> CapacityInputs]}
  /\ sessions \in {<<SessionRow("p1", 1, MaxTime, a, "active"),
                     SessionRow("p2", 1, MaxTime, b, "active")>> :
                   a \in SlotInputs, b \in SlotInputs}
  /\ requests = <<>>
  /\ documents = <<>>
  /\ now = 1
  /\ procs = [i \in 1..MaxProcs |-> Idle]
  /\ outbox = {}

Db == <<users, sessions, requests, documents>>

\* findByPk and the controller's checks; a call they turn away is not in flight.
\* A new call takes the first free place of procs.
ApproveLoad(i) ==
  \E p \in Professors, id \in LiveRequests :
     /\ procs[i].pc = "idle"
     /\ \A j \in 1..(i - 1) : procs[j].pc # "idle"
     /\ requests[id].professorId = p
     /\ requests[id].status = "pending"
     /\ procs' = [procs EXCEPT ![i] =
                    [pc |-> "findStudent", this |-> Instance(id), code |-> NULL]]
     /\ UNCHANGED <<Db, now, outbox>>

\* canBeApproved: User.findByPk(this.studentId)
ApproveFindStudent(i) ==
  /\ procs[i].pc = "findStudent"
  /\ procs' = [procs EXCEPT ![i] =
                 IF StudentAlreadyApproved(users[procs[i].this.studentId])
                 THEN [@ EXCEPT !.pc = "done", !.code = "already_approved"]
                 ELSE [@ EXCEPT !.pc = "findProfessor"]]
  /\ UNCHANGED <<Db, now, outbox>>

\* canBeApproved: User.findByPk(this.professorId)
ApproveFindProfessor(i) ==
  /\ procs[i].pc = "findProfessor"
  /\ procs' = [procs EXCEPT ![i] =
                 IF ProfessorAtCapacity(users[procs[i].this.professorId])
                 THEN [@ EXCEPT !.pc = "done", !.code = "capacity"]
                 ELSE [@ EXCEPT !.pc = "transaction"]]
  /\ UNCHANGED <<Db, now, outbox>>

\* The outcome of the transaction: its writes committed together, or, when a
\* statement throws, rolled back.
Transaction(this, commit) ==
  IF commit THEN ApproveTxn(this) ELSE Fail("error")

\* request.reload() after the commit throws when the row is gone.
Reloaded(out, this) ==
  IF out.code = "ok" /\ ~out.requests[this.id].exists THEN "error" ELSE out.code

ApproveTransaction(i) ==
  \E commit \in BOOLEAN :
     LET this == procs[i].this
         out == Transaction(this, commit)
     IN /\ procs[i].pc = "transaction"
        /\ users' = out.users
        /\ sessions' = out.sessions
        /\ requests' = out.requests
        /\ documents' = out.documents
        /\ procs' = [procs EXCEPT ![i].pc = "done", ![i].code = Reloaded(out, this)]
        /\ UNCHANGED <<now, outbox>>

\* The response is sent.
ApproveRespond(i) ==
  /\ procs[i].pc = "done"
  /\ procs' = [procs EXCEPT ![i] = Idle]
  /\ UNCHANGED <<Db, now, outbox>>

ConcNext ==
  \/ CreateRequest
  \/ RejectRequest
  \/ CancelRequest
  \/ \E i \in 1..MaxProcs : ApproveLoad(i)
  \/ \E i \in 1..MaxProcs : ApproveFindStudent(i)
  \/ \E i \in 1..MaxProcs : ApproveFindProfessor(i)
  \/ \E i \in 1..MaxProcs : ApproveTransaction(i)
  \/ \E i \in 1..MaxProcs : ApproveRespond(i)

ConcSpec == ConcInit /\ [][ConcNext]_vars

(***************************************************************************)
(* The professors' sessions alone: created, moved, resized and deleted,    *)
(* over windows with dates 1..MaxDate, as time passes.                     *)
(***************************************************************************)
CreateSessionDates ==
  \E p \in Professors, startDate \in Dates, endDate \in Dates, maxSlots \in SlotInputs :
     /\ Len(sessions) < MaxSessions
     /\ Apply(createSession(p, startDate, endDate, maxSlots))
     /\ UNCHANGED <<now, procs, outbox>>

UpdateSession ==
  \E p \in Professors, sid \in SessionIds, startDate \in {0} \cup Dates,
     endDate \in {0} \cup Dates, maxSlots \in {0} \cup SlotInputs :
     /\ Apply(updateSession(p, sid, startDate, endDate, maxSlots))
     /\ UNCHANGED <<now, procs, outbox>>

DeleteSession ==
  \E p \in Professors, sid \in SessionIds :
     /\ Apply(deleteSession(p, sid))
     /\ UNCHANGED <<now, procs, outbox>>

SessNext ==
  \/ Tick
  \/ CreateSessionDates
  \/ UpdateSession
  \/ DeleteSession

SessSpec == Init /\ [][SessNext]_vars

(***************************************************************************)
(* Sessions and requests read as time passes: the session listings and the *)
(* session page store the statuses they recompute.                         *)
(***************************************************************************)
GetAllSessions ==
  /\ Apply(getAllSessions)
  /\ UNCHANGED <<now, procs, outbox>>

GetSessionById ==
  \E sid \in SessionIds :
     /\ Apply(getSessionById(sid))
     /\ UNCHANGED <<now, procs, outbox>>

ReadNext ==
  \/ Tick
  \/ CreateSession
  \/ UpdateSessionSlots
  \/ CreateRequest
  \/ GetAllSessions
  \/ GetSessionById

ReadSpec == Init /\ [][ReadNext]_vars

(***************************************************************************)
(* Sessions created, moved and resized while their requests are submitted  *)
(* and approved.                                                           *)
(***************************************************************************)
SlotNext ==
  \/ CreateSessionDates
  \/ UpdateSession
  \/ CreateRequest
  \/ ApproveRequest

SlotSpec == Init /\ [][SlotNext]_vars

(***************************************************************************)
(* The request workflow and the document review, with sessions deleted     *)
(* under them.                                                             *)
(***************************************************************************)
DelNext ==
  \/ DocNext
  \/ DeleteSession

DelSpec == Init /\ [][DelNext]_vars

(***************************************************************************)
(* createRequest one database call at a time, from the same prepared state *)
(* as ConcSpec; approvals, rejections and cancellations run in one step    *)
(* between its calls.                                                      *)
(***************************************************************************)
InFlight == {i \in 1..MaxProcs : procs[i].pc # "idle"}

\* The user row read by authenticate, RegistrationSession.findByPk,
\* updateStatus and the checks on status and slots; a call they turn away is
\* not in flight.
SubmitLoad(i) ==
  \E s \in Students, sid \in LiveSessions :
     LET ss == updateStatus(sessions, sid, now)
     IN /\ procs[i].pc = "idle"
        /\ \A j \in 1..(i - 1) : procs[j].pc # "idle"
        /\ Len(requests) + Cardinality(InFlight) < MaxRequests
        /\ users[s].approvedProfessorId = NULL
        /\ ss[sid].status = "active"
        /\ ss[sid].availableSlots > 0
        /\ sessions' = ss
        /\ procs' = [procs EXCEPT ![i] =
                       [pc |-> "findExisting",
                        this |-> [id |-> 0, studentId |-> s,
                                  professorId |-> ss[sid].professorId,
                                  sessionId |-> sid],
                        code |-> NULL]]
        /\ UNCHANGED <<users, requests, documents, now, outbox>>

\* CoordinationRequest.findOne({where: {studentId, sessionId}})
SubmitFindExisting(i) ==
  /\ procs[i].pc = "findExisting"
  /\ procs' = [procs EXCEPT ![i] =
                 IF ExistingRequest(procs[i].this.studentId, procs[i].this.sessionId)
                 THEN [@ EXCEPT !.pc = "done", !.code = "duplicate"]
                 ELSE [@ EXCEPT !.pc = "create"]]
  /\ UNCHANGED <<Db, now, outbox>>

\* CoordinationRequest.create
SubmitCreate(i) ==
  LET out == create(procs[i].this)
  IN /\ procs[i].pc = "create"
     /\ requests' = out.requests
     /\ procs' = [procs EXCEPT ![i].pc = "done", ![i].code = out.code]
     /\ UNCHANGED <<users, sessions, documents, now, outbox>>

\* The response is sent.
SubmitRespond(i) ==
  /\ procs[i].pc = "done"
  /\ procs' = [procs EXCEPT ![i] = Idle]
  /\ UNCHANGED <<Db, now, outbox>>

SubmitNext ==
  \/ ApproveRequest
  \/ RejectRequest
  \/ CancelRequest
  \/ \E i \in 1..MaxProcs : SubmitLoad(i)
  \/ \E i \in 1..MaxProcs : SubmitFindExisting(i)
  \/ \E i \in 1..MaxProcs : SubmitCreate(i)
  \/ \E i \in 1..MaxProcs : SubmitRespond(i)

SubmitSpec == ConcInit /\ [][SubmitNext]_vars

(***************************************************************************)
(* updateSession with a body that holds maxSlots, one database call at a   *)
(* time: the session is loaded and patched, then saved; requests are       *)
(* submitted and approved in between.  One update is in flight at a time.  *)
(***************************************************************************)
\* findByPk, the ownership check and the new values set on the instance.
UpdateLoad(i) ==
  \E p \in Professors, sid \in LiveSessions, maxSlots \in SlotInputs :
     /\ i = 1
     /\ InFlight = {}
     /\ sessions[sid].professorId = p
     /\ procs' = [procs EXCEPT ![i] =
                    [pc |-> "save",
                     this |-> [sessionId |-> sid, loaded |-> sessions[sid],
                               row |-> PatchedSession(sessions[sid], 0, 0, maxSlots)],
                     code |-> NULL]]
     /\ UNCHANGED <<Db, now, outbox>>

\* session.save() writes the fields whose value was changed on the instance,
\* then updateStatus saves the status when it differs.
Saved(ss, this, t) ==
  LET sid == this.sessionId
      stored == ss[sid]
      a == IF this.row.maxSlots # this.loaded.maxSlots
           THEN [stored EXCEPT !.maxSlots = this.row.maxSlots] ELSE stored
      b == IF this.row.availableSlots # this.loaded.availableSlots
           THEN [a EXCEPT !.availableSlots = this.row.availableSlots] ELSE a
      newStatus == StatusAt(this.row.startDate, this.row.endDate, t)
      c == IF this.row.status # newStatus THEN [b EXCEPT !.status = newStatus] ELSE b
  IN IF stored.exists THEN [ss EXCEPT ![sid] = c] ELSE ss

UpdateSave(i) ==
  /\ procs[i].pc = "save"
  /\ sessions' = Saved(sessions, procs[i].this, now)
  /\ procs' = [procs EXCEPT ![i].pc = "done", ![i].code = "ok"]
  /\ UNCHANGED <<users, requests, documents, now, outbox>>

\* The response is sent.
UpdateRespond(i) ==
  /\ procs[i].pc = "done"
  /\ procs' = [procs EXCEPT ![i] = Idle]
  /\ UNCHANGED <<Db, now, outbox>>

ResizeNext ==
  \/ CreateRequest
  \/ ApproveRequest
  \/ \E i \in 1..MaxProcs : UpdateLoad(i)
  \/ \E i \in 1..MaxProcs : UpdateSave(i)
  \/ \E i \in 1..MaxProcs : UpdateRespond(i)

ResizeSpec == ConcInit /\ [][ResizeNext]_vars

(***************************************************************************)
(* The six handlers that notify, each in two steps: the handler up to its  *)
(* last write (or its early return, or the rollback of its transaction),   *)
(* then the call of emailService, which is not awaited and whose failure   *)
(* is caught and logged.  outbox holds the e-mail delivered last, as       *)
(* <<event, request>>.  One call is in flight at a time: it is the order   *)
(* of a call's own steps that is looked at.                                *)
(***************************************************************************)
MailInit ==
  /\ users = [u \in UserIds |->
                IF u \in Students THEN StudentRow ELSE ProfessorRow(MaxStudentsInput)]
  /\ sessions = <<SessionRow("p1", 1, MaxTime, MaxSlotsInput, "active"),
                  SessionRow("p2", 1, MaxTime, MaxSlotsInput, "active")>>
  /\ requests = <<>>
  /\ documents = <<>>
  /\ now = 1
  /\ procs = [i \in 1..MaxProcs |-> Idle]
  /\ outbox = {}
Events ==
  {"submitted", "approved", "rejected", "uploaded", "accepted", "document_rejected"}

\* Mutant: the e-mail is sent whatever the outcome of the writes.
NotifyPcAlways(event, out) == event

\* Where a handler stands after its writes: before its emailService call when
\* they succeeded, at its (error) response otherwise.
NotifyPc(event, out) == IF out.code = "ok" THEN event ELSE "done"

\* Handler call i runs up to its notification, leaving the tables of out.
Handle(i, event, out, id) ==
  /\ i = 1
  /\ InFlight = {}
  /\ users' = out.users
  /\ sessions' = out.sessions
  /\ requests' = out.requests
  /\ documents' = out.documents
  /\ procs' = [procs EXCEPT ![i] =
                 [pc |-> NotifyPc(event, out),
                  this |-> IF out.code = "ok"
                           THEN [Idle.this EXCEPT !.id = id]
                           ELSE Idle.this,
                  code |-> out.code]]
  /\ UNCHANGED <<now, outbox>>

\* A statement of a transaction throws: its writes are rolled back.
Rollback(commit, out) == IF commit THEN out ELSE Fail("error")

MailCreateRequest(i) ==
  \E s \in Students, sid \in SessionIds :
     /\ Len(requests) < MaxRequests
     /\ Handle(i, "submitted", createRequest(s, sid), Len(requests) + 1)

MailApproveRequest(i) ==
  \E p \in Professors, id \in RequestIds, commit \in BOOLEAN :
     Handle(i, "approved", Rollback(commit, approveRequest(p, id)), id)

MailRejectRequest(i) ==
  \E p \in Professors, id \in RequestIds, reason \in Reasons :
     Handle(i, "rejected", rejectRequest(p, id, reason), id)

\* Only the student's upload notifies.
MailUploadDocument(i) ==
  \E u \in UserIds, id \in RequestIds :
     /\ Len(documents) < MaxDocuments
     /\ Handle(i, IF u \in Students THEN "uploaded" ELSE "done",
               uploadDocument(u, id), id)

MailAcceptDocument(i) ==
  \E p \in Professors, did \in DocumentIds, commit \in BOOLEAN :
     Handle(i, "accepted", Rollback(commit, acceptDocument(p, did)),
            documents[did].requestId)

MailRejectDocument(i) ==
  \E p \in Professors, did \in DocumentIds, reason \in Reasons, commit \in BOOLEAN :
     Handle(i, "document_rejected", Rollback(commit, rejectDocument(p, did, reason)),
            documents[did].requestId)

\* emailService.send...(...).catch(...): the e-mail is delivered or it is not.
MailNotify(i) ==
  \E delivered \in BOOLEAN :
     /\ procs[i].pc \in Events
     /\ outbox' = IF delivered
                  THEN {<<procs[i].pc, procs[i].this.id>>}
                  ELSE outbox
     /\ procs' = [procs EXCEPT ![i].pc = "done"]
     /\ UNCHANGED <<Db, now>>

\* The response is sent.
MailRespond(i) ==
  /\ procs[i].pc = "done"
  /\ procs' = [procs EXCEPT ![i] = Idle]
  /\ UNCHANGED <<Db, now, outbox>>

MailNext ==
  \/ \E i \in 1..MaxProcs : MailCreateRequest(i)
  \/ \E i \in 1..MaxProcs : MailApproveRequest(i)
  \/ \E i \in 1..MaxProcs : MailRejectRequest(i)
  \/ \E i \in 1..MaxProcs : MailUploadDocument(i)
  \/ \E i \in 1..MaxProcs : MailAcceptDocument(i)
  \/ \E i \in 1..MaxProcs : MailRejectDocument(i)
  \/ \E i \in 1..MaxProcs : MailNotify(i)
  \/ \E i \in 1..MaxProcs : MailRespond(i)

MailSpec == MailInit /\ [][MailNext]_vars

(***************************************************************************)
(* Properties.                                                             *)
(***************************************************************************)
CommittedRequestsOf(s) ==
  {r \in LiveRequests : requests[r].studentId = s /\ requests[r].status \in Committed}

\* C1: in every reachable state every student has at most one request whose
\* status is approved, document_pending or completed.
C1_OneCommittedRequestPerStudent ==
  \A s \in Students : Cardinality(CommittedRequestsOf(s)) <= 1

\* C2: in every reachable state every professor has
\* 0 <= currentStudentCount <= maxStudents.
C2_CommittedWithinCapacity ==
  \A p \in Professors :
     /\ 0 <= users[p].currentStudentCount
     /\ users[p].currentStudentCount <= users[p].maxStudents

\* C3: in every reachable state every session has
\* 0 <= availableSlots <= maxSlots.
C3_SlotsWithinBounds ==
  \A s \in SessionIds :
     /\ 0 <= sessions[s].availableSlots
     /\ sessions[s].availableSlots <= sessions[s].maxSlots

\* The step of ApproveTransaction for the approval in flight at place i.
TransactionStep(i) ==
  procs[i].pc = "transaction" /\ procs'[i].pc = "done"

\* The five writes of the approval of `this`, read off the two states of a step.
FiveWrites(this) ==
  /\ requests'[this.id].status = "approved"
  /\ users'[this.studentId].approvedProfessorId = this.professorId
  /\ users'[this.professorId].currentStudentCount
       = users[this.professorId].currentStudentCount + 1
  /\ sessions'[this.sessionId].availableSlots
       = sessions[this.sessionId].availableSlots - 1
  /\ \A r \in LiveRequests \ {this.id} :
        IF requests[r].studentId = this.studentId /\ requests[r].status = "pending"
        THEN /\ requests'[r].status = "rejected"
             /\ requests'[r].rejectionReason = SYSTEM_REASON
        ELSE requests'[r] = requests[r]

C5_OneApprovalWins ==
  \A i \in 1..MaxProcs, j \in 1..MaxProcs :
     /\ procs[i].pc = "done" /\ procs[j].pc = "done"
     /\ procs[i].this.id # procs[j].this.id
     /\ procs[i].this.studentId = procs[j].this.studentId
     /\ procs[i].this.professorId # procs[j].this.professorId
     => ~(procs[i].code = "ok" /\ procs[j].code = "ok")

Edges ==
  {<<"pending", "approved">>, <<"pending", "rejected">>,
   <<"approved", "document_pending">>, <<"document_pending", "approved">>,
   <<"document_pending", "completed">>}

\* C6: every change of the status of a stored request follows one of the
\* edges pending->approved, pending->rejected, approved->document_pending,
\* document_pending->approved, document_pending->completed.
C6_StatusFollowsEdges ==
  [][\A r \in LiveRequests :
        requests'[r].exists /\ requests'[r].status # requests[r].status
          => <<requests[r].status, requests'[r].status>> \in Edges]_vars

\* C7: a step that raises a professor's currentStudentCount starts from
\* currentStudentCount < maxStudents.
C7_CapacityHeldAtCommit ==
  [][\A p \in Professors :
        users'[p].currentStudentCount > users[p].currentStudentCount
          => users[p].currentStudentCount < users[p].maxStudents]_vars

\* C8: approving a pending request whose session has availableSlots = 0 does
\* not succeed and leaves requests, users and sessions as they are.
C8_NoSlotsNoApproval ==
  \A p \in Professors, id \in LiveRequests :
     /\ requests[id].professorId = p
     /\ requests[id].status = "pending"
     /\ sessions[requests[id].sessionId].availableSlots = 0
     => LET out == approveRequest(p, id)
        IN /\ out.code # "ok"
           /\ out.requests = requests
           /\ out.users = users
           /\ out.sessions = sessions

\* The guards of submit that fail for student s and session sid, by the error
\* each gives.
FailedSubmitGuards(s, sid) ==
  {c \in {"already_approved", "not_active", "no_slots", "duplicate"} :
     \/ c = "already_approved" /\ users[s].approvedProfessorId # NULL
     \/ c = "not_active"
          /\ ~(sessions[sid].startDate <= now /\ now <= sessions[sid].endDate)
     \/ c = "no_slots" /\ sessions[sid].availableSlots <= 0
     \/ c = "duplicate"
          /\ \E r \in LiveRequests :
                requests[r].studentId = s /\ requests[r].sessionId = sid}

\* C9: for every student and session, createRequest answers success and adds
\* one pending request exactly when the student has no approved professor, the
\* session is active at the time of the call, it has availableSlots > 0 and
\* the student has no request for it; otherwise it answers with the error of a
\* guard that failed and the requests are as before.  And a step that adds a
\* request adds one pending request whose guards held before the step.
C9_SubmitGuards ==
  /\ [](\A s \in Students, sid \in SessionIds :
          LET out == createRequest(s, sid)
          IN IF FailedSubmitGuards(s, sid) = {}
             THEN /\ out.code = "ok"
                  /\ out.requests =
                       Append(requests, RequestRow(s, sessions[sid].professorId, sid))
             ELSE /\ out.code \in FailedSubmitGuards(s, sid)
                  /\ out.requests = requests)
  /\ [][Len(requests') > Len(requests) =>
          /\ Len(requests') = Len(requests) + 1
          /\ LET new == requests'[Len(requests')]
             IN /\ new.exists /\ new.status = "pending"
                /\ new.studentId \in Students
                /\ new.sessionId \in SessionIds
                /\ new.professorId = sessions[new.sessionId].professorId
                /\ FailedSubmitGuards(new.studentId, new.sessionId) = {}]_vars

\* C9 witness: a request was submitted, and a session without a free slot
\* turns a student away although it is active.
C9_Witness ==
  /\ LiveRequests # {}
  /\ \E s \in Students, sid \in SessionIds :
        /\ FailedSubmitGuards(s, sid) = {"no_slots"}
        /\ createRequest(s, sid).code = "no_slots"

Counters(u, ss) ==
  <<[x \in UserIds |-> <<u[x].approvedProfessorId, u[x].maxStudents,
                         u[x].currentStudentCount>>],
    [x \in 1..Len(ss) |-> <<ss[x].maxSlots, ss[x].availableSlots>>]>>

\* C10: createRequest, rejectRequest and cancelRequest, answered with success
\* or not, leave every session's availableSlots and maxSlots, every
\* professor's currentStudentCount and maxStudents and every student's
\* approvedProfessorId as they are; a step that lowers a session's
\* availableSlots while its maxSlots stays is a step that approves one of its
\* pending requests.
C10_OnlyApproveTouchesCounters ==
  /\ [](/\ \A s \in Students, sid \in SessionIds :
             LET out == createRequest(s, sid)
             IN Counters(out.users, out.sessions) = Counters(users, sessions)
        /\ \A p \in Professors, id \in RequestIds, reason \in Reasons :
             LET out == rejectRequest(p, id, reason)
             IN Counters(out.users, out.sessions) = Counters(users, sessions)
        /\ \A s \in Students, id \in RequestIds :
             LET out == cancelRequest(s, id)
             IN Counters(out.users, out.sessions) = Counters(users, sessions))
  /\ [][\A sid \in SessionIds :
          /\ sessions'[sid].availableSlots < sessions[sid].availableSlots
          /\ sessions'[sid].maxSlots = sessions[sid].maxSlots
          => \E r \in LiveRequests :
                /\ requests[r].sessionId = sid
                /\ requests[r].status = "pending"
                /\ requests'[r].status = "approved"]_vars

\* C10 witness: after a rejection with a reason and a cancellation, the
\* session of the rejected request still has every slot and its professor no
\* student.
C10_Witness ==
  \E r \in LiveRequests :
     /\ requests[r].status = "rejected"
     /\ requests[r].rejectionReason = "reason"
     /\ \E d \in RequestIds : ~requests[d].exists
     /\ sessions[requests[r].sessionId].availableSlots
          = sessions[requests[r].sessionId].maxSlots
     /\ users[requests[r].professorId].currentStudentCount = 0

\* C11: in every reachable state no two stored requests have the same
\* student and the same session, also when two createRequest calls of one
\* student for one session both pass the existing-request check before either
\* inserts.
C11_OneRequestPerStudentAndSession ==
  \A a \in LiveRequests, b \in LiveRequests :
     a # b => ~(/\ requests[a].studentId = requests[b].studentId
                /\ requests[a].sessionId = requests[b].sessionId)

\* C11 witness: a createRequest call passed the existing-request check and
\* its insert was turned away by the index, the pair being stored by then.
C11_Witness ==
  \E i \in 1..MaxProcs :
     /\ procs[i].pc = "done" /\ procs[i].code = "error"
     /\ ExistingRequest(procs[i].this.studentId, procs[i].this.sessionId)

Intersect(a, b) == a.startDate <= b.endDate /\ b.startDate <= a.endDate

RequestsOf(sid) == {r \in LiveRequests : requests[r].sessionId = sid}

\* C13: for every stored session, deleteSession by its owner fails and
\* leaves sessions and requests as they are when some request of the session
\* is approved, document_pending or completed, and succeeds, removing the
\* session, when every request of the session is pending or rejected or there
\* is none; and in every reachable state every request that is approved,
\* document_pending or completed refers to a stored session.
C13_DeleteKeepsCommitted ==
  /\ \A sid \in LiveSessions :
        LET out == deleteSession(sessions[sid].professorId, sid)
        IN IF \E r \in RequestsOf(sid) : requests[r].status \in Committed
           THEN /\ out.code # "ok"
                /\ out.sessions = sessions
                /\ out.requests = requests
           ELSE /\ out.code = "ok"
                /\ ~out.sessions[sid].exists
                /\ \A o \in SessionIds \ {sid} : out.sessions[o] = sessions[o]
  /\ \A r \in LiveRequests :
        requests[r].status \in Committed => requests[r].sessionId \in LiveSessions

\* C13 witness: a session was deleted, and a stored session with a completed
\* request cannot be.
C13_Witness ==
  /\ \E sid \in SessionIds : ~sessions[sid].exists
  /\ \E sid \in LiveSessions :
        /\ \E r \in RequestsOf(sid) : requests[r].status = "completed"
        /\ deleteSession(sessions[sid].professorId, sid).code = "has_approved"

\* The documents of request id that its student uploaded and that await review.
StudentDocsUnderReview(id) ==
  {d \in DocumentIds : /\ documents[d].requestId = id
                       /\ documents[d].uploadedBy = requests[id].studentId
                       /\ documents[d].status = "pending_review"}

\* C14: for a request in document_pending with one document of its student
\* under review, rejectDocument by the professor rejects the document and
\* returns the request to approved, and acceptDocument accepts it and brings
\* the request to completed; for a request in approved, uploadDocument by the
\* student adds a document under review and brings the request to
\* document_pending.  So reject, upload, accept ends in completed.
C14_RejectUploadAccept ==
  \A id \in LiveRequests :
     /\ requests[id].status = "document_pending"
          => \A d \in StudentDocsUnderReview(id) :
                StudentDocsUnderReview(id) = {d} =>
                   LET rej == rejectDocument(requests[id].professorId, d, "reason")
                       acc == acceptDocument(requests[id].professorId, d)
                   IN /\ rej.code = "ok"
                      /\ rej.documents[d].status = "rejected"
                      /\ rej.requests[id].status = "approved"
                      /\ acc.code = "ok"
                      /\ acc.documents[d].status = "accepted"
                      /\ acc.requests[id].status = "completed"
     /\ requests[id].status = "approved"
          => LET up == uploadDocument(requests[id].studentId, id)
                 new == Len(documents) + 1
             IN /\ up.code = "ok"
                /\ Len(up.documents) = new
                /\ up.documents[new].requestId = id
                /\ up.documents[new].uploadedBy = requests[id].studentId
                /\ up.documents[new].status = "pending_review"
                /\ up.requests[id].status = "document_pending"

\* C14 witness: a completed request whose student's first document was
\* rejected and whose second document was accepted.
C14_Witness ==
  \E id \in LiveRequests, d1 \in DocumentIds, d2 \in DocumentIds :
     /\ requests[id].status = "completed"
     /\ d1 < d2
     /\ documents[d1].requestId = id /\ documents[d2].requestId = id
     /\ documents[d1].uploadedBy = requests[id].studentId
     /\ documents[d2].uploadedBy = requests[id].studentId
     /\ documents[d1].status = "rejected"
     /\ documents[d2].status = "accepted"

MayReview(p, d) ==
  /\ p = requests[documents[d].requestId].professorId
  /\ documents[d].status = "pending_review"

\* C16: for every user and document, acceptDocument and rejectDocument
\* succeed exactly when the user is the professor of the document's request
\* and the document is pending_review (rejectDocument also needs a non-empty
\* reason); accept then sets the document accepted and the request completed,
\* reject sets the document rejected with the reason and the request approved,
\* and a call that fails leaves documents and requests as they are.  And every
\* step that changes a document's status changes the status of its request in
\* the same step: accepted with completed, rejected with approved.
C16_ReviewIsOneUnit ==
  /\ [](\A p \in UserIds, d \in DocumentIds, reason \in Reasons :
          LET acc == acceptDocument(p, d)
              rej == rejectDocument(p, d, reason)
              id == documents[d].requestId
          IN /\ IF MayReview(p, d)
                THEN /\ acc.code = "ok"
                     /\ acc.documents = [documents EXCEPT ![d].status = "accepted"]
                     /\ acc.requests = [requests EXCEPT ![id].status = "completed"]
                ELSE /\ acc.code # "ok"
                     /\ acc.documents = documents
                     /\ acc.requests = requests
             /\ IF MayReview(p, d) /\ reason # ""
                THEN /\ rej.code = "ok"
                     /\ rej.documents = [documents EXCEPT ![d].status = "rejected",
                                                          ![d].rejectionReason = reason]
                     /\ rej.requests = [requests EXCEPT ![id].status = "approved"]
                ELSE /\ rej.code # "ok"
                     /\ rej.documents = documents
                     /\ rej.requests = requests)
  /\ [][\A d \in DocumentIds :
          documents'[d] # documents[d] =>
             /\ documents[d].status = "pending_review"
             /\ \/ /\ documents'[d].status = "accepted"
                   /\ requests'[documents[d].requestId].status = "completed"
                \/ /\ documents'[d].status = "rejected"
                   /\ documents'[d].rejectionReason \notin {NULL, ""}
                   /\ requests'[documents[d].requestId].status = "approved"]_vars

\* C16 witness: one document was accepted with its request completed, another
\* was rejected with a reason, and a reviewed document cannot be reviewed
\* again, nor a document awaiting review by another professor.
C16_Witness ==
  \E a \in DocumentIds, r \in DocumentIds :
     /\ documents[a].status = "accepted"
     /\ requests[documents[a].requestId].status = "completed"
     /\ documents[r].status = "rejected"
     /\ documents[r].rejectionReason = "reason"
     /\ acceptDocument(requests[documents[r].requestId].professorId, r).code
          = "invalid_state"
     /\ \E p \in Professors : rejectDocument(p, a, "reason").code = "forbidden"

\* C17: every step that changes the status of a document is taken on a
\* document uploaded by the student of its request (the reviewer being the
\* professor of the request): a document the professor uploaded is never
\* accepted or rejected by that professor.
C17_ReviewedByCounterpart ==
  [][\A d \in DocumentIds :
        documents'[d].status # documents[d].status
          => documents[d].uploadedBy = requests[documents[d].requestId].studentId]_vars

\* C18: every step that removes a stored request removes a request whose
\* status is pending; a request that is approved, rejected, document_pending
\* or completed is removed by no operation, cancelRequest and deleteSession
\* included.
C18_RemovedOnlyWhilePending ==
  [][\A r \in LiveRequests :
        ~requests'[r].exists => requests[r].status = "pending"]_vars

\* The tables a failed call has to leave alone.
Untouched(out) ==
  /\ out.requests = requests
  /\ out.users = users
  /\ out.sessions = sessions

\* The error of a call on stored request id by a user who is not the party
\* `owner`, or in a status other than pending.
GuardError(u, owner, id) ==
  IF u # owner THEN "forbidden" ELSE "invalid_state"

\* C19: for every user and stored request, approveRequest and rejectRequest
\* change something only when the user is the request's professor and the
\* request is pending, and cancelRequest removes the request exactly when the
\* user is its student and the request is pending; otherwise the call answers
\* with the authorization or the invalid-state error and leaves requests,
\* users and sessions as they are.  rejectRequest with an empty reason fails
\* and changes nothing; with a reason it stores rejected and the reason.  And
\* every step that makes a request rejected or removes it starts from pending.
C19_RequestGuards ==
  /\ [](\A u \in UserIds, id \in LiveRequests :
          LET app == approveRequest(u, id)
              can == cancelRequest(u, id)
              bySponsor == u = requests[id].professorId /\ requests[id].status = "pending"
              byStudent == u = requests[id].studentId /\ requests[id].status = "pending"
          IN /\ IF bySponsor
                THEN app.code # "ok" => Untouched(app)
                ELSE /\ app.code = GuardError(u, requests[id].professorId, id)
                     /\ Untouched(app)
             /\ \A reason \in Reasons :
                   LET rej == rejectRequest(u, id, reason)
                   IN IF bySponsor /\ reason # ""
                      THEN /\ rej.code = "ok"
                           /\ rej.requests =
                                [requests EXCEPT ![id].status = "rejected",
                                                 ![id].rejectionReason = reason]
                           /\ rej.users = users /\ rej.sessions = sessions
                      ELSE /\ rej.code =
                                IF reason = "" THEN "validation"
                                ELSE GuardError(u, requests[id].professorId, id)
                           /\ Untouched(rej)
             /\ IF byStudent
                THEN /\ can.code = "ok"
                     /\ ~can.requests[id].exists
                     /\ \A o \in RequestIds \ {id} : can.requests[o] = requests[o]
                     /\ can.users = users /\ can.sessions = sessions
                ELSE /\ can.code = GuardError(u, requests[id].studentId, id)
                     /\ Untouched(can))
  /\ [][\A r \in LiveRequests :
          /\ requests'[r].exists /\ requests'[r].status = "rejected"
               /\ requests[r].status # "rejected"
               => /\ requests[r].status = "pending"
                  /\ requests'[r].rejectionReason \notin {NULL, ""}
          /\ ~requests'[r].exists => requests[r].status = "pending"
          /\ requests[r].status = "pending" /\ requests'[r].exists
               => requests'[r].status \in {"pending", "approved", "rejected"}]_vars

\* C19 witness: a request was rejected with a reason and another was
\* approved; approving or cancelling the approved one again is refused as an
\* invalid state, and another professor's rejection of it as not authorized.
C19_Witness ==
  \E r \in LiveRequests, a \in LiveRequests, p \in Professors :
     /\ requests[r].status = "rejected"
     /\ requests[r].rejectionReason = "reason"
     /\ requests[a].status = "approved"
     /\ approveRequest(requests[a].professorId, a).code = "invalid_state"
     /\ cancelRequest(requests[a].studentId, a).code = "invalid_state"
     /\ rejectRequest(p, a, "reason").code = "forbidden"

\* The writes of the transition that event tells of are stored for request id.
Written(event, id) ==
  /\ id \in LiveRequests
  /\ CASE event = "submitted" -> requests[id].status = "pending"
       [] event = "approved" ->
            /\ requests[id].status = "approved"
            /\ users[requests[id].studentId].approvedProfessorId
                 = requests[id].professorId
       [] event = "rejected" ->
            /\ requests[id].status = "rejected"
            /\ requests[id].rejectionReason \notin {NULL, ""}
       [] event = "uploaded" ->
            /\ requests[id].status = "document_pending"
            /\ \E d \in DocumentIds :
                  /\ documents[d].requestId = id
                  /\ documents[d].uploadedBy = requests[id].studentId
                  /\ documents[d].status = "pending_review"
       [] event = "accepted" ->
            /\ requests[id].status = "completed"
            /\ \E d \in DocumentIds :
                  documents[d].requestId = id /\ documents[d].status = "accepted"
       [] event = "document_rejected" ->
            /\ requests[id].status = "approved"
            /\ \E d \in DocumentIds :
                  documents[d].requestId = id /\ documents[d].status = "rejected"
       [] OTHER -> FALSE

\* C20: a handler stands before its emailService call only with its writes
\* stored and its outcome a success; an e-mail is delivered only by such a
\* call, in a step that writes no table; a call whose guards fail or whose
\* transaction is rolled back goes to its response with no e-mail and, when
\* rolled back, with every table as before; and whether the e-mail is
\* delivered or the notifier fails, tables and outcome stay as they are.
C20_NotifyAfterCommit ==
  /\ [](\A i \in 1..MaxProcs :
          procs[i].pc \in Events =>
             procs[i].code = "ok" /\ Written(procs[i].pc, procs[i].this.id))
  /\ [][/\ outbox' # outbox =>
             \E i \in 1..MaxProcs :
                /\ procs[i].pc \in Events
                /\ procs[i].code = "ok"
                /\ Written(procs[i].pc, procs[i].this.id)
                /\ outbox' = {<<procs[i].pc, procs[i].this.id>>}
                /\ UNCHANGED Db
        /\ \A i \in 1..MaxProcs :
             procs[i].pc \in Events /\ procs'[i] # procs[i] =>
                /\ procs'[i].pc = "done"
                /\ procs'[i].code = procs[i].code
                /\ UNCHANGED Db
        /\ \A i \in 1..MaxProcs :
             procs[i].pc = "idle" /\ procs'[i].pc # "idle" /\ procs'[i].code # "ok" =>
                /\ procs'[i].pc = "done"
                /\ UNCHANGED outbox
                /\ procs'[i].code = "error" => UNCHANGED Db]_vars

\* C20 witness: the e-mail of an approval was delivered; a later rejection
\* of another request is stored and answered with success although its e-mail
\* was not delivered.
C20_Witness ==
  \E a \in LiveRequests, r \in LiveRequests, i \in 1..MaxProcs :
     /\ outbox = {<<"approved", a>>}
     /\ requests[a].status = "approved"
     /\ procs[i].pc = "done" /\ procs[i].code = "ok" /\ procs[i].this.id = r
     /\ requests[r].status = "rejected"
     /\ requests[r].rejectionReason = "reason"

\* C21: for every professor, every candidate window [s, e] with s < e and
\* every session taken as the candidate itself (or none), hasOverlap reports
\* an overlap exactly when another stored session of the professor has a
\* window [s', e'] with s' <= e and s <= e'.
C21_HasOverlapIsIntersection ==
  \A p \in Professors, self \in {0} \cup SessionIds, s \in Dates, e \in Dates :
     s < e =>
        (hasOverlap(sessions, self, p, s, e)
           <=> \E o \in LiveSessions \ {self} :
                  /\ sessions[o].professorId = p
                  /\ sessions[o].startDate <= e
                  /\ s <= sessions[o].endDate)

\* C21 witness: with one stored session of a professor, a window that starts
\* on its end date and a window strictly around it are reported as overlaps,
\* a window that starts the day after its end is not, and a window strictly
\* inside a stored session is.
C21_Witness ==
  \E o \in LiveSessions, i \in LiveSessions :
     LET p == sessions[o].professorId
     IN /\ \A x \in LiveSessions \ {o} : sessions[x].professorId # p
        /\ hasOverlap(sessions, 0, p, sessions[o].endDate, sessions[o].endDate + 1)
        /\ hasOverlap(sessions, 0, p, sessions[o].startDate - 1, sessions[o].endDate + 1)
        /\ ~hasOverlap(sessions, 0, p, sessions[o].endDate + 1, sessions[o].endDate + 2)
        /\ sessions[i].endDate - sessions[i].startDate > 2
        /\ hasOverlap(sessions, 0, sessions[i].professorId,
                      sessions[i].startDate + 1, sessions[i].endDate - 1)

Max0(x) == IF x > 0 THEN x ELSE 0

\* C22: for every stored session with 0 <= availableSlots <= maxSlots and
\* every body, an updateSession by the owner that succeeds with a new maxSlots
\* m' stores maxSlots = m' and availableSlots = max(0, availableSlots + (m' -
\* maxSlots)), which lies in [0, m']; an updateSession by a professor who does
\* not own the session, or one whose dates give a window that intersects
\* another session of the owner, fails and leaves every table as it is.
C22_UpdateSlotsAndGuards ==
  \A sid \in LiveSessions, p \in Professors, startDate \in {0} \cup Dates,
     endDate \in {0} \cup Dates, maxSlots \in {0} \cup SlotInputs :
     LET row == sessions[sid]
         out == updateSession(p, sid, startDate, endDate, maxSlots)
         s == IF Given(startDate) THEN startDate ELSE row.startDate
         e == IF Given(endDate) THEN endDate ELSE row.endDate
         unchanged == /\ out.sessions = sessions /\ out.requests = requests
                      /\ out.users = users /\ out.documents = documents
     IN /\ p # row.professorId => out.code = "forbidden" /\ unchanged
        /\ /\ p = row.professorId
           /\ Given(startDate) \/ Given(endDate)
           /\ \E o \in LiveSessions \ {sid} :
                 /\ sessions[o].professorId = p
                 /\ sessions[o].startDate <= e /\ s <= sessions[o].endDate
           => out.code # "ok" /\ unchanged
        /\ /\ out.code = "ok"
           /\ Given(maxSlots)
           /\ 0 <= row.availableSlots /\ row.availableSlots <= row.maxSlots
           => /\ out.sessions[sid].maxSlots = maxSlots
              /\ out.sessions[sid].availableSlots
                   = Max0(row.availableSlots + (maxSlots - row.maxSlots))
              /\ 0 <= out.sessions[sid].availableSlots
              /\ out.sessions[sid].availableSlots <= maxSlots

\* C22 witness: a session whose two requests were approved was then resized
\* to one slot and shows none available; its owner has a second session that
\* cannot be moved onto it, and the other professor cannot resize it.
C22_Witness ==
  \E sid \in LiveSessions, o \in LiveSessions, p \in Professors :
     /\ sessions[sid].maxSlots = 1
     /\ sessions[sid].availableSlots = 0
     /\ Cardinality({r \in RequestsOf(sid) : requests[r].status = "approved"}) = 2
     /\ o # sid
     /\ sessions[o].professorId = sessions[sid].professorId
     /\ updateSession(sessions[o].professorId, o,
                      sessions[sid].endDate, sessions[sid].endDate + 1, 0).code
          = "overlap"
     /\ updateSession(p, sid, 0, 0, MaxSlotsInput).code = "forbidden"

Recomputed(sid) == StatusAt(sessions[sid].startDate, sessions[sid].endDate, now)

\* C23: every read that returns a session's status returns the status
\* recomputed from its window at the time of the read (upcoming when now <
\* startDate, active when startDate <= now <= endDate, closed otherwise): the
\* session listings, the session page, and the request listing that embeds
\* the status of each request's session; and after the listings' batched
\* recompute every stored status equals this mapping.
C23_NoStaleStatus ==
  /\ \A sid \in LiveSessions :
        /\ getAllSessions.data[sid] = Recomputed(sid)
        /\ getAllSessions.sessions[sid].status = Recomputed(sid)
        /\ getSessionById(sid).data = Recomputed(sid)
  /\ \A u \in UserIds :
        \A r \in DOMAIN getMyRequests(u) :
           getMyRequests(u)[r] = Recomputed(requests[r].sessionId)

\* C24: when an updateSession that sets maxSlots to m' has loaded the
\* session and approvals have lowered its availableSlots by k before the
\* save, the availableSlots stored by the save is the value of a serial
\* order: max(0, loaded + (m' - m)) - k (the update first) or
\* max(0, stored + (m' - m)) (the approvals first); and it lies in [0, m'].
C24_ResizeKeepsApprovals ==
  [][\A i \in 1..MaxProcs :
        procs[i].pc = "save" /\ procs'[i].pc = "done" =>
           LET this == procs[i].this
               sid == this.sessionId
               k == this.loaded.availableSlots - sessions[sid].availableSlots
               m == this.loaded.maxSlots
           IN /\ sessions'[sid].availableSlots
                   \in {Max0(this.loaded.availableSlots + (this.row.maxSlots - m)) - k,
                        Max0(sessions[sid].availableSlots + (this.row.maxSlots - m))}
              /\ 0 <= sessions'[sid].availableSlots
              /\ sessions'[sid].availableSlots <= sessions'[sid].maxSlots]_vars

\* C25: an approval whose transaction sets the student's approvedProfessorId,
\* raises the professor's currentStudentCount and takes a slot of the session
\* does so for a request that is stored and not rejected when it commits: a
\* request cancelled or rejected while its approval was in flight does not
\* end deleted or rejected with the approval's writes applied for it.
C25_ApproveVsRejectCancel ==
  [][\A i \in 1..MaxProcs :
        /\ TransactionStep(i)
        /\ users'[procs[i].this.professorId].currentStudentCount
             > users[procs[i].this.professorId].currentStudentCount
        => /\ requests[procs[i].this.id].exists
           /\ requests[procs[i].this.id].status # "rejected"
           /\ requests'[procs[i].this.id].status = "approved"]_vars

\* C26: a student's approvedProfessorId is professor p exactly when the
\* student has a stored request to p in status approved, document_pending or
\* completed; it is empty exactly when the student has no such request; and
\* once set it never changes.
C26_AcceptedByMatchesRequests ==
  /\ [](\A s \in Students :
          /\ \A p \in Professors :
                users[s].approvedProfessorId = p
                   <=> \E r \in CommittedRequestsOf(s) : requests[r].professorId = p
          /\ users[s].approvedProfessorId = NULL <=> CommittedRequestsOf(s) = {})
  /\ [][\A s \in Students :
          users[s].approvedProfessorId # NULL
             => users'[s].approvedProfessorId = users[s].approvedProfessorId]_vars

\* C27: in every reachable state a student whose approvedProfessorId is set
\* has no stored request in status pending, also when a createRequest of the
\* student is in flight while another of their requests is approved.
C27_NoPendingOnceAccepted ==
  \A s \in Students :
     users[s].approvedProfessorId # NULL
        => \A r \in LiveRequests :
              requests[r].studentId = s => requests[r].status # "pending"

\* C28: in every reachable state each professor's currentStudentCount equals
\* the number of students whose approvedProfessorId is that professor, which
\* equals the number of the professor's stored requests in status approved,
\* document_pending or completed.
C28_CountMatchesStudentsAndRequests ==
  \A p \in Professors :
     /\ users[p].currentStudentCount
          = Cardinality({s \in Students : users[s].approvedProfessorId = p})
     /\ users[p].currentStudentCount
          = Cardinality({r \in LiveRequests : /\ requests[r].professorId = p
                                              /\ requests[r].status \in Committed})

\* C29: in every reachable state, for each session maxSlots - availableSlots
\* equals the number of its stored requests in status approved,
\* document_pending or completed, whatever approvals and maxSlots updates
\* came before.
C29_SlotsMatchCommittedRequests ==
  \A sid \in LiveSessions :
     sessions[sid].maxSlots - sessions[sid].availableSlots
        = Cardinality({r \in RequestsOf(sid) : requests[r].status \in Committed})

(***************************************************************************)
(* The review of documents over several rounds: a request is submitted and *)
(* approved, then documents are uploaded, accepted and rejected.           *)
(***************************************************************************)
MaxUploads == 3

UploadRevision ==
  \E u \in UserIds, id \in RequestIds :
     /\ Len(documents) < MaxUploads
     /\ Apply(uploadDocument(u, id))
     /\ UNCHANGED <<now, procs, outbox>>

ReviewNext ==
  \/ CreateRequest
  \/ ApproveRequest
  \/ UploadRevision
  \/ AcceptDocument
  \/ RejectDocument

ReviewSpec == MailInit /\ [][ReviewNext]_vars

\* The documents of request r that are in pending_review.
UnderReview(r) ==
  {d \in DocumentIds : documents[d].requestId = r /\ documents[d].status = "pending_review"}

\* C30: in every reachable state a request in document_pending has at least
\* one document in pending_review, so its professor has a document to accept
\* or reject, and a request has at most one document uploaded by its student
\* in pending_review.
C30_DocumentPendingHasOneUnderReview ==
  \A r \in LiveRequests :
     /\ requests[r].status = "document_pending" => UnderReview(r) # {}
     /\ Cardinality({d \in UnderReview(r) : documents[d].uploaderRole = "student"}) <= 1

====
